---------------------------- MODULE Spec2Model ----------------------------
(***************************************************************************)
(* libs3, general.c: conversion of an ACL XML document into grant records  *)
(* (S3_convert_acl and its simplexml callback convertAclXmlCallback).      *)
(*                                                                         *)
(* One document is converted twice, by two callers that own distinct       *)
(* storage (owner buffers, grant count, grant array) holding different     *)
(* contents before the call.  The push-style walker delivers the same      *)
(* sequence of events to both conversions; each conversion halts on its    *)
(* own first failure.  Strings are TLA+ strings: the characters of a C     *)
(* string up to, not including, its terminator.                            *)
(*                                                                         *)
(* The two pure functions of general.c, S3_validate_bucket_name and        *)
(* S3_status_is_retryable, have a specification each: the arguments of a   *)
(* call are drawn in its initial state, and its actions are the steps of   *)
(* the function.  A further specification validates one name under both   *)
(* styles, and one follows a call of S3_initialize through its allocation, *)
(* its loops and its returns.                                              *)
(***************************************************************************)
EXTENDS Integers, Sequences, FiniteSets, TLC

VARIABLES
    conv,       \* conv[c]: caller c's storage and the ConvertAclData of its call
    hist,       \* hist[c]: what the walker of caller c's call has observed
    docClass,   \* the class of documents the converted document is taken from
    delivered,  \* number of events the document has produced so far
    val,        \* a call of S3_validate_bucket_name: arguments and locals
    retry,      \* a call of S3_status_is_retryable: argument and return value
    both,       \* both[u]: a call of S3_validate_bucket_name with style u,
                \* the two calls on one name
    lib         \* a call of S3_initialize: its locals, the lock table pLocksG
                \* and what has been done to the mutexes

vars == <<conv, hist, docClass, delivered, val, retry, both, lib>>

\* the variables of the ACL conversion, and those of the pure functions
aclVars == <<conv, hist, docClass, delivered>>
callVars == <<val, retry, both, lib>>

(***************************************************************************)
(* Bounds of the model.                                                    *)
(***************************************************************************)
\* Capacity of the caller's grant array.  The program takes it from libs3.h;
\* general.c only names it, and the model takes a small capacity.
S3_MAX_ACL_GRANT_COUNT == 2

\* Longest document of each class, in walker events: documents of any
\* events, documents that vary the grantee of a grant, and documents that
\* vary its permission text.  Documents of the fourth class, which fill the
\* grant array, have up to three events for each grant of a full array and
\* of one grant more.
MaxAnyEvents == 5
MaxGranteeEvents == 6
MaxPermissionEvents == 5

\* Longest document of the class that varies the owner, in walker events.
MaxOwnerEvents == 3

(***************************************************************************)
(* Program constants.                                                      *)
(***************************************************************************)
\* libs3.h: sizes of the grantee fields of S3AclGrant.
S3_MAX_GRANTEE_EMAIL_ADDRESS_SIZE == 256
S3_MAX_GRANTEE_USER_ID_SIZE == 128
S3_MAX_GRANTEE_DISPLAY_NAME_SIZE == 128
\* string_buffer(groupUri, 128) and string_buffer(permission, 32)
GroupUriSize == 128
PermissionSize == 32

Callers == {1, 2}

Min(a, b) == IF a < b THEN a ELSE b

(***************************************************************************)
(* Element paths the callback compares against.                            *)
(***************************************************************************)
PathOwnerId == "AccessControlPolicy/Owner/ID"
PathOwnerDisplayName == "AccessControlPolicy/Owner/DisplayName"
PathEmailAddress == "AccessControlPolicy/AccessControlList/Grant/Grantee/EmailAddress"
PathGranteeId == "AccessControlPolicy/AccessControlList/Grant/Grantee/ID"
PathGranteeDisplayName == "AccessControlPolicy/AccessControlList/Grant/Grantee/DisplayName"
PathGroupUri == "AccessControlPolicy/AccessControlList/Grant/Grantee/URI"
PathPermission == "AccessControlPolicy/AccessControlList/Grant/Permission"
PathGrant == "AccessControlPolicy/AccessControlList/Grant"
\* paths of the ACL schema the callback has no branch for
PathGrantee == "AccessControlPolicy/AccessControlList/Grant/Grantee"
PathOwner == "AccessControlPolicy/Owner"

UriAuthenticatedUsers == "http://acs.amazonaws.com/groups/global/AuthenticatedUsers"
UriAllUsers == "http://acs.amazonaws.com/groups/global/AllUsers"


(***************************************************************************)
(* Character buffers.                                                      *)
(***************************************************************************)
\* snprintf(&buf[at], size, "%.*s", dataLen, data) on a buffer holding the
\* string buf: with size > 0 it stores at most size - 1 characters of data
\* at offset at and terminates them; with size = 0 it stores nothing.  A
\* write that starts beyond the terminator leaves the string as it was.
SnprintfStore(buf, at, size, data) ==
    IF size = 0 \/ at > Len(buf)
    THEN buf
    ELSE SubSeq(buf, 1, at) \o SubSeq(data, 1, Min(Len(data), size - 1))

\* snprintf returns the length the output would have had without the limit
SnprintfReturn(data) == Len(data)

\* string_buffer_initialize(sb)
string_buffer_initialize == ""

\* string_buffer_append(sb, str, len, all_fit) for a string_buffer(sb, size):
\* as much of the chunk as fits is appended; all_fit tells whether all did.
string_buffer_append(sb, size, data) ==
    [sb      |-> sb \o SubSeq(data, 1, Min(Len(data), size - Len(sb))),
     all_fit |-> Len(sb) + Len(data) <= size]

(***************************************************************************)
(* Grant records (S3AclGrant).  grantee is the union of the record: it     *)
(* holds the member that was stored last.                                  *)
(***************************************************************************)
ByEmail(emailAddress) ==
    [member |-> "amazonCustomerByEmail", emailAddress |-> emailAddress,
     id |-> "", displayName |-> ""]

ByCanonicalUser(id, displayName) ==
    [member |-> "canonicalUser", emailAddress |-> "",
     id |-> id, displayName |-> displayName]

\* Variant of ResolveGrantee that tests for a canonical user before the
\* email address.
ResolveGrantee_CanonicalFirst(d, grant) ==
    IF d.userId # "" /\ d.userDisplayName # ""
    THEN [ok |-> TRUE,
          grant |-> [grant EXCEPT
                        !.granteeType = "S3GranteeTypeCanonicalUser",
                        !.grantee = ByCanonicalUser(d.userId, d.userDisplayName)]]
    ELSE IF d.emailAddress # ""
    THEN [ok |-> TRUE,
          grant |-> [grant EXCEPT
                        !.granteeType = "S3GranteeTypeAmazonCustomerByEmail",
                        !.grantee = ByEmail(d.emailAddress)]]
    ELSE IF d.groupUri = UriAuthenticatedUsers
    THEN [ok |-> TRUE,
          grant |-> [grant EXCEPT !.granteeType = "S3GranteeTypeAllAwsUsers"]]
    ELSE IF d.groupUri = UriAllUsers
    THEN [ok |-> TRUE,
          grant |-> [grant EXCEPT !.granteeType = "S3GranteeTypeAllUsers"]]
    ELSE [ok |-> FALSE, grant |-> grant]

\* Variant of ResolveGrantee that takes a grantee id alone for a canonical
\* user.
ResolveGrantee_IdAlone(d, grant) ==
    IF d.emailAddress # ""
    THEN [ok |-> TRUE,
          grant |-> [grant EXCEPT
                        !.granteeType = "S3GranteeTypeAmazonCustomerByEmail",
                        !.grantee = ByEmail(d.emailAddress)]]
    ELSE IF d.userId # ""
    THEN [ok |-> TRUE,
          grant |-> [grant EXCEPT
                        !.granteeType = "S3GranteeTypeCanonicalUser",
                        !.grantee = ByCanonicalUser(d.userId, d.userDisplayName)]]
    ELSE IF d.groupUri = UriAuthenticatedUsers
    THEN [ok |-> TRUE,
          grant |-> [grant EXCEPT !.granteeType = "S3GranteeTypeAllAwsUsers"]]
    ELSE IF d.groupUri = UriAllUsers
    THEN [ok |-> TRUE,
          grant |-> [grant EXCEPT !.granteeType = "S3GranteeTypeAllUsers"]]
    ELSE [ok |-> FALSE, grant |-> grant]

\* Subject resolution of a closing Grant element, written into grant.
\* ok = FALSE is the return of S3StatusBadAclGrantee, before any store.
ResolveGrantee(d, grant) ==
    IF d.emailAddress # ""
    THEN [ok |-> TRUE,
          grant |-> [grant EXCEPT
                        !.granteeType = "S3GranteeTypeAmazonCustomerByEmail",
                        !.grantee = ByEmail(d.emailAddress)]]
    ELSE IF d.userId # "" /\ d.userDisplayName # ""
    THEN [ok |-> TRUE,
          grant |-> [grant EXCEPT
                        !.granteeType = "S3GranteeTypeCanonicalUser",
                        !.grantee = ByCanonicalUser(d.userId, d.userDisplayName)]]
    ELSE IF d.groupUri # ""
    THEN IF d.groupUri = UriAuthenticatedUsers
         THEN [ok |-> TRUE,
               grant |-> [grant EXCEPT !.granteeType = "S3GranteeTypeAllAwsUsers"]]
         ELSE IF d.groupUri = UriAllUsers
         THEN [ok |-> TRUE,
               grant |-> [grant EXCEPT !.granteeType = "S3GranteeTypeAllUsers"]]
         ELSE [ok |-> FALSE, grant |-> grant]
    ELSE [ok |-> FALSE, grant |-> grant]

\* Variant of ResolvePermission that compares only as many characters as
\* the literal has.
ResolvePermission_Prefix(permission) ==
    LET starts(lit) == /\ Len(permission) >= Len(lit)
                       /\ SubSeq(permission, 1, Len(lit)) = lit
    IN  IF starts("READ") THEN "S3PermissionRead"
        ELSE IF starts("WRITE") THEN "S3PermissionWrite"
        ELSE IF starts("READ_ACP") THEN "S3PermissionReadACP"
        ELSE IF starts("WRITE_ACP") THEN "S3PermissionWriteACP"
        ELSE IF starts("FULL_CONTROL") THEN "S3PermissionFullControl"
        ELSE ""

\* Permission resolution by strcmp; "" stands for the return of
\* S3StatusBadAclPermission.
ResolvePermission(permission) ==
    IF permission = "READ" THEN "S3PermissionRead"
    ELSE IF permission = "WRITE" THEN "S3PermissionWrite"
    ELSE IF permission = "READ_ACP" THEN "S3PermissionReadACP"
    ELSE IF permission = "WRITE_ACP" THEN "S3PermissionWriteACP"
    ELSE IF permission = "FULL_CONTROL" THEN "S3PermissionFullControl"
    ELSE ""

\* the check that the grant array has no room left
GrantArrayFull(d) == d.aclGrantCount = S3_MAX_ACL_GRANT_COUNT

\* Variant of GrantSlot that always takes the first element.
GrantSlot_First(d) == 0

\* index of the array element the closing grant is written to
GrantSlot(d) == d.aclGrantCount

\* string_buffer_initialize of the five accumulators
ResetAccumulators(d) ==
    [d EXCEPT !.emailAddress = string_buffer_initialize,
              !.userId = string_buffer_initialize,
              !.userDisplayName = string_buffer_initialize,
              !.groupUri = string_buffer_initialize,
              !.permission = string_buffer_initialize]

\* Variant of GrantEnd that resolves and stores the grant, in the last
\* element when the array is full, before it tests for room.
GrantEnd_WriteBeforeCheck(d) ==
    LET i == Min(d.aclGrantCount, S3_MAX_ACL_GRANT_COUNT - 1)
        sub == ResolveGrantee(d, d.aclGrants[i])
        perm == ResolvePermission(d.permission)
    IN  IF ~sub.ok
        THEN [d EXCEPT !.ret = "S3StatusBadAclGrantee"]
        ELSE IF perm = ""
        THEN [d EXCEPT !.aclGrants[i] = sub.grant,
                       !.ret = "S3StatusBadAclPermission"]
        ELSE IF GrantArrayFull(d)
        THEN [d EXCEPT !.aclGrants[i] = [sub.grant EXCEPT !.permission = perm],
                       !.ret = "S3StatusTooManyAclGrants"]
        ELSE ResetAccumulators(
               [d EXCEPT !.aclGrants[i] = [sub.grant EXCEPT !.permission = perm],
                         !.aclGrantCount = @ + 1,
                         !.ret = "S3StatusOK"])

\* Variant of GrantEnd that clears the array element before it resolves
\* the grant.
GrantEnd_ClearsSlot(d) ==
    IF GrantArrayFull(d)
    THEN [d EXCEPT !.ret = "S3StatusTooManyAclGrants"]
    ELSE LET i == GrantSlot(d)
             clear == [granteeType |-> "S3GranteeTypeAmazonCustomerByEmail",
                       grantee |-> ByEmail(""), permission |-> "S3PermissionRead"]
             sub == ResolveGrantee(d, clear)
             perm == ResolvePermission(d.permission)
         IN  IF ~sub.ok
             THEN [d EXCEPT !.aclGrants[i] = clear,
                            !.ret = "S3StatusBadAclGrantee"]
             ELSE IF perm = ""
             THEN [d EXCEPT !.aclGrants[i] = sub.grant,
                            !.ret = "S3StatusBadAclPermission"]
             ELSE ResetAccumulators(
                    [d EXCEPT !.aclGrants[i] = [sub.grant EXCEPT !.permission = perm],
                              !.aclGrantCount = @ + 1,
                              !.ret = "S3StatusOK"])

\* Variant of GrantEnd that counts the grant before it resolves the
\* permission.
GrantEnd_CountsFailure(d) ==
    IF GrantArrayFull(d)
    THEN [d EXCEPT !.ret = "S3StatusTooManyAclGrants"]
    ELSE LET i == GrantSlot(d)
             sub == ResolveGrantee(d, d.aclGrants[i])
             perm == ResolvePermission(d.permission)
         IN  IF ~sub.ok
             THEN [d EXCEPT !.ret = "S3StatusBadAclGrantee"]
             ELSE IF perm = ""
             THEN [d EXCEPT !.aclGrants[i] = sub.grant,
                            !.aclGrantCount = @ + 1,
                            !.ret = "S3StatusBadAclPermission"]
             ELSE ResetAccumulators(
                    [d EXCEPT !.aclGrants[i] = [sub.grant EXCEPT !.permission = perm],
                              !.aclGrantCount = @ + 1,
                              !.ret = "S3StatusOK"])

\* Variant of GrantEnd that leaves the accumulators as they are.
GrantEnd_KeepsAccumulators(d) ==
    IF GrantArrayFull(d)
    THEN [d EXCEPT !.ret = "S3StatusTooManyAclGrants"]
    ELSE LET i == GrantSlot(d)
             sub == ResolveGrantee(d, d.aclGrants[i])
             perm == ResolvePermission(d.permission)
         IN  IF ~sub.ok
             THEN [d EXCEPT !.ret = "S3StatusBadAclGrantee"]
             ELSE IF perm = ""
             THEN [d EXCEPT !.aclGrants[i] = sub.grant,
                            !.ret = "S3StatusBadAclPermission"]
             ELSE [d EXCEPT !.aclGrants[i] = [sub.grant EXCEPT !.permission = perm],
                            !.aclGrantCount = @ + 1,
                            !.ret = "S3StatusOK"]

\* The close of an AccessControlList/Grant element.
GrantEnd(d) ==
    IF GrantArrayFull(d)
    THEN [d EXCEPT !.ret = "S3StatusTooManyAclGrants"]
    ELSE LET i == GrantSlot(d)
             sub == ResolveGrantee(d, d.aclGrants[i])
             perm == ResolvePermission(d.permission)
         IN  IF ~sub.ok
             THEN [d EXCEPT !.ret = "S3StatusBadAclGrantee"]
             ELSE IF perm = ""
             THEN [d EXCEPT !.aclGrants[i] = sub.grant,
                            !.ret = "S3StatusBadAclPermission"]
             ELSE ResetAccumulators(
                    [d EXCEPT !.aclGrants[i] = [sub.grant EXCEPT !.permission = perm],
                              !.aclGrantCount = @ + 1,
                              !.ret = "S3StatusOK"])

(***************************************************************************)
(* Text events, one operator per branch of the callback.                   *)
(***************************************************************************)
\* Variant of OwnerIdText that passes snprintf the room left in the buffer
\* and one character more.
OwnerIdText_NoReserve(d, data) ==
    LET len == d.ownerIdLen + SnprintfReturn(data)
    IN  [d EXCEPT
           !.ownerId = SnprintfStore(@, d.ownerIdLen,
                          S3_MAX_GRANTEE_USER_ID_SIZE - d.ownerIdLen + 1, data),
           !.ownerIdLen = len,
           !.ret = IF len >= S3_MAX_GRANTEE_USER_ID_SIZE
                   THEN "S3StatusBadAclUserIdTooLong" ELSE "S3StatusOK"]

OwnerIdText(d, data) ==
    LET len == d.ownerIdLen + SnprintfReturn(data)
    IN  [d EXCEPT
           !.ownerId = SnprintfStore(@, d.ownerIdLen,
                          S3_MAX_GRANTEE_USER_ID_SIZE - d.ownerIdLen - 1, data),
           !.ownerIdLen = len,
           !.ret = IF len >= S3_MAX_GRANTEE_USER_ID_SIZE
                   THEN "S3StatusBadAclUserIdTooLong" ELSE "S3StatusOK"]

OwnerDisplayNameText(d, data) ==
    LET len == d.ownerDisplayNameLen + SnprintfReturn(data)
    IN  [d EXCEPT
           !.ownerDisplayName = SnprintfStore(@, d.ownerDisplayNameLen,
                          S3_MAX_GRANTEE_DISPLAY_NAME_SIZE - d.ownerDisplayNameLen - 1,
                          data),
           !.ownerDisplayNameLen = len,
           !.ret = IF len >= S3_MAX_GRANTEE_DISPLAY_NAME_SIZE
                   THEN "S3StatusBadAclUserDisplayNameTooLong" ELSE "S3StatusOK"]

\* Variant of EmailAddressText that reports the overflow with the status of
\* the user id.
EmailAddressText_UserIdStatus(d, data) ==
    LET a == string_buffer_append(d.emailAddress,
                                  S3_MAX_GRANTEE_EMAIL_ADDRESS_SIZE, data)
    IN  [d EXCEPT !.emailAddress = a.sb,
                  !.ret = IF ~a.all_fit THEN "S3StatusBadAclUserIdTooLong"
                          ELSE "S3StatusOK"]

EmailAddressText(d, data) ==
    LET a == string_buffer_append(d.emailAddress,
                                  S3_MAX_GRANTEE_EMAIL_ADDRESS_SIZE, data)
    IN  [d EXCEPT !.emailAddress = a.sb,
                  !.ret = IF ~a.all_fit THEN "S3StatusBadAclEmailAddressTooLong"
                          ELSE "S3StatusOK"]

GranteeIdText(d, data) ==
    LET a == string_buffer_append(d.userId, S3_MAX_GRANTEE_USER_ID_SIZE, data)
    IN  [d EXCEPT !.userId = a.sb,
                  !.ret = IF ~a.all_fit THEN "S3StatusBadAclUserIdTooLong"
                          ELSE "S3StatusOK"]

GranteeDisplayNameText(d, data) ==
    LET a == string_buffer_append(d.userDisplayName,
                                  S3_MAX_GRANTEE_DISPLAY_NAME_SIZE, data)
    IN  [d EXCEPT !.userDisplayName = a.sb,
                  !.ret = IF ~a.all_fit THEN "S3StatusBadAclUserDisplayNameTooLong"
                          ELSE "S3StatusOK"]

GroupUriText(d, data) ==
    LET a == string_buffer_append(d.groupUri, GroupUriSize, data)
    IN  [d EXCEPT !.groupUri = a.sb,
                  !.ret = IF ~a.all_fit THEN "S3StatusBadAclGroupUriTooLong"
                          ELSE "S3StatusOK"]

PermissionText(d, data) ==
    LET a == string_buffer_append(d.permission, PermissionSize, data)
    IN  [d EXCEPT !.permission = a.sb,
                  !.ret = IF ~a.all_fit THEN "S3StatusBadAclPermissionTooLong"
                          ELSE "S3StatusOK"]

\* Variant of convertAclXmlCallback that takes the close of any element for
\* the close of a Grant element.
convertAclXmlCallback_AnyClose(d, elementPath, hasData, data) ==
    IF hasData
    THEN IF elementPath = PathOwnerId THEN OwnerIdText(d, data)
         ELSE IF elementPath = PathOwnerDisplayName THEN OwnerDisplayNameText(d, data)
         ELSE IF elementPath = PathEmailAddress THEN EmailAddressText(d, data)
         ELSE IF elementPath = PathGranteeId THEN GranteeIdText(d, data)
         ELSE IF elementPath = PathGranteeDisplayName
              THEN GranteeDisplayNameText(d, data)
         ELSE IF elementPath = PathGroupUri THEN GroupUriText(d, data)
         ELSE IF elementPath = PathPermission THEN PermissionText(d, data)
         ELSE [d EXCEPT !.ret = "S3StatusOK"]
    ELSE GrantEnd(d)

\* convertAclXmlCallback(elementPath, data, dataLen, callbackData); hasData
\* is FALSE for the call that reports the close of an element (data = NULL).
\* The result is the ConvertAclData after the call, its return value in ret.
convertAclXmlCallback(d, elementPath, hasData, data) ==
    IF hasData
    THEN IF elementPath = PathOwnerId THEN OwnerIdText(d, data)
         ELSE IF elementPath = PathOwnerDisplayName THEN OwnerDisplayNameText(d, data)
         ELSE IF elementPath = PathEmailAddress THEN EmailAddressText(d, data)
         ELSE IF elementPath = PathGranteeId THEN GranteeIdText(d, data)
         ELSE IF elementPath = PathGranteeDisplayName
              THEN GranteeDisplayNameText(d, data)
         ELSE IF elementPath = PathGroupUri THEN GroupUriText(d, data)
         ELSE IF elementPath = PathPermission THEN PermissionText(d, data)
         ELSE [d EXCEPT !.ret = "S3StatusOK"]
    ELSE IF elementPath = PathGrant THEN GrantEnd(d)
         ELSE [d EXCEPT !.ret = "S3StatusOK"]

(***************************************************************************)
(* S3_convert_acl.                                                         *)
(***************************************************************************)
\* Variant of ConvertAclInitialize that leaves the caller's grant count as
\* it finds it.
ConvertAclInitialize_KeepsCount(d) ==
    ResetAccumulators(
        [d EXCEPT !.ownerId = "", !.ownerIdLen = 0,
                  !.ownerDisplayName = "", !.ownerDisplayNameLen = 0,
                  !.pc = "parse", !.ret = "S3StatusOK"])

\* The head of S3_convert_acl: the caller's storage is bound to a fresh
\* ConvertAclData, and lengths, count and accumulators are cleared.
ConvertAclInitialize(d) ==
    ResetAccumulators(
        [d EXCEPT !.ownerId = "", !.ownerIdLen = 0,
                  !.ownerDisplayName = "", !.ownerDisplayNameLen = 0,
                  !.aclGrantCount = 0,
                  !.pc = "parse", !.ret = "S3StatusOK"])

\* Variant of ConvertAclReturn that reports success whatever simplexml_add
\* returned.
ConvertAclReturn_AlwaysOK(status) == "S3StatusOK"

\* What S3_convert_acl returns: the status of simplexml_add.
ConvertAclReturn(status) == status

\* The walker hands one event to the callback; a return other than
\* S3StatusOK ends simplexml_add with that status, and S3_convert_acl returns.
Deliver(d, elementPath, hasData, data) ==
    LET r == convertAclXmlCallback(d, elementPath, hasData, data)
    IN  IF r.ret = "S3StatusOK"
        THEN r
        ELSE [r EXCEPT !.pc = "done", !.status = ConvertAclReturn(r.ret)]

\* The walker ends simplexml_add by itself: with S3StatusOK at the end of
\* the document, with its own failure on a document it cannot parse.
WalkerEnd(d, status) ==
    [d EXCEPT !.pc = "done", !.status = ConvertAclReturn(status)]

(***************************************************************************)
(* Inputs: the events a document can produce.                              *)
(***************************************************************************)
RECURSIVE Fill(_)
Fill(n) ==
    IF n = 0 THEN ""
    ELSE LET half == Fill(n \div 2)
         IN  half \o half \o (IF n % 2 = 1 THEN "x" ELSE "")

\* a text longer than every field
LongText == Fill(S3_MAX_GRANTEE_EMAIL_ADDRESS_SIZE + 1)

UriLogDelivery == "http://acs.amazonaws.com/groups/s3/LogDelivery"

DocClasses == {"any", "grantee", "permission", "grants", "owner"}

MaxDocEvents(class) ==
    IF class = "any" THEN MaxAnyEvents
    ELSE IF class = "grantee" THEN MaxGranteeEvents
    ELSE IF class = "permission" THEN MaxPermissionEvents
    ELSE IF class = "owner" THEN MaxOwnerEvents
    ELSE 3 * (S3_MAX_ACL_GRANT_COUNT + 1)

TextPaths ==
    {PathOwnerId, PathOwnerDisplayName, PathEmailAddress, PathGranteeId,
     PathGranteeDisplayName, PathGroupUri, PathPermission, PathOwner}

\* the text chunks a document of the class can hold in an element
Chunks(class, elementPath) ==
    IF class = "any"
    THEN IF elementPath = PathOwnerId THEN {"owner", LongText}
         ELSE IF elementPath = PathOwnerDisplayName THEN {"Owner", LongText}
         ELSE IF elementPath = PathEmailAddress THEN {"a@b.c", LongText}
         ELSE IF elementPath = PathGranteeId THEN {"id1", LongText}
         ELSE IF elementPath = PathGranteeDisplayName THEN {"name", LongText}
         ELSE IF elementPath = PathGroupUri THEN {UriAllUsers, LongText}
         ELSE IF elementPath = PathPermission THEN {"READ", "_ACP", LongText}
         ELSE {" "}
    ELSE IF class = "grantee"
    THEN IF elementPath = PathEmailAddress THEN {"a@b.c"}
         ELSE IF elementPath = PathGranteeId THEN {"id1"}
         ELSE IF elementPath = PathGranteeDisplayName THEN {"name"}
         ELSE IF elementPath = PathGroupUri
              THEN {UriAuthenticatedUsers, UriAllUsers, UriLogDelivery}
         ELSE IF elementPath = PathPermission THEN {"READ"}
         ELSE {}
    ELSE IF class = "permission"
    THEN IF elementPath = PathEmailAddress THEN {"a@b.c"}
         ELSE IF elementPath = PathPermission
              THEN {"READ", "WRITE", "_ACP", "FULL", "_CONTROL", "read"}
         ELSE {}
    ELSE IF class = "owner"
    THEN IF elementPath = PathOwnerId
         THEN {"i", "id" \o Fill(S3_MAX_GRANTEE_USER_ID_SIZE - 4),
               "id" \o Fill(S3_MAX_GRANTEE_USER_ID_SIZE - 3),
               "id" \o Fill(S3_MAX_GRANTEE_USER_ID_SIZE - 2), LongText}
         ELSE IF elementPath = PathOwnerDisplayName
         THEN {"n", "dn" \o Fill(S3_MAX_GRANTEE_DISPLAY_NAME_SIZE - 4),
               "dn" \o Fill(S3_MAX_GRANTEE_DISPLAY_NAME_SIZE - 3),
               "dn" \o Fill(S3_MAX_GRANTEE_DISPLAY_NAME_SIZE - 2), LongText}
         ELSE {}
    ELSE IF elementPath = PathEmailAddress THEN {"a@b.c"}
         ELSE IF elementPath = PathGroupUri THEN {UriAllUsers}
         ELSE IF elementPath = PathPermission THEN {"READ"}
         ELSE {}

\* the elements whose close a document of the class reports
EndPaths(class) ==
    IF class = "any" THEN {PathGrant, PathGrantee}
    ELSE IF class = "owner" THEN {}
    ELSE {PathGrant}

(***************************************************************************)
(* Contents of a caller's storage before the call.                         *)
(***************************************************************************)
ZeroGrant ==
    [granteeType |-> "S3GranteeTypeAmazonCustomerByEmail",
     grantee |-> ByEmail(""), permission |-> "S3PermissionRead"]

StaleGrant ==
    [granteeType |-> "S3GranteeTypeCanonicalUser",
     grantee |-> ByCanonicalUser("stale-id", "stale-name"),
     permission |-> "S3PermissionFullControl"]

GrantIndexes == 0 .. (S3_MAX_ACL_GRANT_COUNT - 1)

ZeroStorage ==
    [pc |-> "call", ret |-> "S3StatusOK", status |-> "S3StatusOK",
     ownerId |-> "", ownerIdLen |-> 0,
     ownerDisplayName |-> "", ownerDisplayNameLen |-> 0,
     aclGrantCount |-> 0, aclGrants |-> [i \in GrantIndexes |-> ZeroGrant],
     emailAddress |-> "", userId |-> "", userDisplayName |-> "",
     groupUri |-> "", permission |-> ""]

\* storage left behind by an earlier use; n is the stale grant count
StaleStorage(n) ==
    [pc |-> "call", ret |-> "S3StatusOK", status |-> "S3StatusOK",
     ownerId |-> "old-owner", ownerIdLen |-> 9,
     ownerDisplayName |-> "Old Owner", ownerDisplayNameLen |-> 9,
     aclGrantCount |-> n, aclGrants |-> [i \in GrantIndexes |-> StaleGrant],
     emailAddress |-> "old@b.c", userId |-> "old-id", userDisplayName |-> "old",
     groupUri |-> UriAllUsers, permission |-> "WRITE"]

PriorStorage(c) ==
    IF c = 1 THEN {ZeroStorage}
    ELSE {StaleStorage(S3_MAX_ACL_GRANT_COUNT)}

\* the accumulators, the count and the array as a Grant close finds them
Snapshot(d, seen) ==
    [seen |-> seen,
     emailAddress |-> d.emailAddress, userId |-> d.userId,
     userDisplayName |-> d.userDisplayName, groupUri |-> d.groupUri,
     permission |-> d.permission,
     aclGrantCount |-> d.aclGrantCount, aclGrants |-> d.aclGrants]

\* the texts of the five grant fields, none delivered yet
NoTexts ==
    [emailAddress |-> "", userId |-> "", userDisplayName |-> "",
     groupUri |-> "", permission |-> ""]

\* the texts with data added to the text of the field at elementPath
AddText(texts, elementPath, data) ==
    IF elementPath = PathEmailAddress THEN [texts EXCEPT !.emailAddress = @ \o data]
    ELSE IF elementPath = PathGranteeId THEN [texts EXCEPT !.userId = @ \o data]
    ELSE IF elementPath = PathGranteeDisplayName
    THEN [texts EXCEPT !.userDisplayName = @ \o data]
    ELSE IF elementPath = PathGroupUri THEN [texts EXCEPT !.groupUri = @ \o data]
    ELSE IF elementPath = PathPermission THEN [texts EXCEPT !.permission = @ \o data]
    ELSE texts

\* processed: events handed to the callback; closed: Grant closes among
\* them; materialized: Grant closes the callback answered with S3StatusOK;
\* firstFail: the first status other than S3StatusOK the walker met;
\* failedAt: the event the callback failed on; lastGrantEnd: the data the
\* latest Grant close found; lastEvent: the latest event handed to the
\* callback; ownerIdText, ownerDisplayNameText: the text of the owner
\* elements the callback answered with S3StatusOK; grantTexts: the text of
\* the grant fields the callback answered with S3StatusOK since the latest
\* materialized grant.
NoHistory ==
    [processed |-> 0, closed |-> 0, materialized |-> 0, firstFail |-> "none",
     failedAt |-> [elementPath |-> "", hasData |-> FALSE],
     lastGrantEnd |-> Snapshot(ZeroStorage, FALSE),
     lastEvent |-> [elementPath |-> "", hasData |-> FALSE],
     ownerIdText |-> "", ownerDisplayNameText |-> "",
     grantTexts |-> NoTexts]

(***************************************************************************)
(* S3_validate_bucket_name.  Characters are strings of length one; the     *)
(* classification is that of the C locale.                                 *)
(***************************************************************************)
Letters ==
    {"a", "b", "c", "d", "e", "f", "g", "h", "i", "j", "k", "l", "m",
     "n", "o", "p", "q", "r", "s", "t", "u", "v", "w", "x", "y", "z",
     "A", "B", "C", "D", "E", "F", "G", "H", "I", "J", "K", "L", "M",
     "N", "O", "P", "Q", "R", "S", "T", "U", "V", "W", "X", "Y", "Z"}

Digits == {"0", "1", "2", "3", "4", "5", "6", "7", "8", "9"}

isalpha(c) == c \in Letters
isdigit(c) == c \in Digits

\* the character s[i] of a C string, i counted from 0 and below its length
CharAt(s, i) == SubSeq(s, i + 1, i + 1)

UriStyles == {"S3UriStyleVirtualHost", "S3UriStylePath"}

virtualHostStyle(v) == v.uriStyle = "S3UriStyleVirtualHost"

maxlen(v) == IF virtualHostStyle(v) THEN 63 ELSE 255

\* the locals of the function when it reaches its loop; b is the offset of
\* the pointer b from bucketName
ValidateEnter(bucketName, uriStyle) ==
    [pc |-> "scan", ret |-> "none",
     bucketName |-> bucketName, uriStyle |-> uriStyle,
     b |-> 0, len |-> 0, hasDot |-> FALSE, hasNonDigit |-> FALSE]

ValidateReturn(v, status) == [v EXCEPT !.pc = "done", !.ret = status]

\* Variant of ValidateScan that tests the length after the character.
ValidateScan_ClassFirst(v) ==
    LET c == CharAt(v.bucketName, v.b)
        long == v.len = maxlen(v)
        tooLong == ValidateReturn(v, "S3StatusInvalidBucketNameTooLong")
    IN  IF isalpha(c)
        THEN IF long THEN tooLong
             ELSE [v EXCEPT !.len = @ + 1, !.b = @ + 1, !.hasNonDigit = TRUE]
        ELSE IF isdigit(c)
        THEN IF long THEN tooLong ELSE [v EXCEPT !.len = @ + 1, !.b = @ + 1]
        ELSE IF v.len = 0
        THEN ValidateReturn(v, "S3StatusInvalidBucketNameFirstCharacter")
        ELSE IF c = "_"
        THEN IF virtualHostStyle(v)
             THEN ValidateReturn(v, "S3StatusInvalidBucketNameCharacter")
             ELSE IF long THEN tooLong
             ELSE [v EXCEPT !.len = @ + 1, !.b = @ + 1, !.hasNonDigit = TRUE]
        ELSE IF c = "-"
        THEN IF virtualHostStyle(v) /\ v.b > 0 /\ CharAt(v.bucketName, v.b - 1) = "."
             THEN ValidateReturn(v, "S3StatusInvalidBucketNameCharacterSequence")
             ELSE IF long THEN tooLong
             ELSE [v EXCEPT !.len = @ + 1, !.b = @ + 1, !.hasNonDigit = TRUE]
        ELSE IF c = "."
        THEN IF virtualHostStyle(v) /\ v.b > 0 /\ CharAt(v.bucketName, v.b - 1) = "-"
             THEN ValidateReturn(v, "S3StatusInvalidBucketNameCharacterSequence")
             ELSE IF long THEN tooLong
             ELSE [v EXCEPT !.len = @ + 1, !.b = @ + 1, !.hasDot = TRUE]
        ELSE ValidateReturn(v, "S3StatusInvalidBucketNameCharacter")

\* Variant of ValidateScan that rejects a '-' after a '.' but not a '.'
\* after a '-'.
ValidateScan_DotDashOnly(v) ==
    LET c == CharAt(v.bucketName, v.b)
    IN  IF v.len = maxlen(v)
        THEN ValidateReturn(v, "S3StatusInvalidBucketNameTooLong")
        ELSE IF isalpha(c)
        THEN [v EXCEPT !.len = @ + 1, !.b = @ + 1, !.hasNonDigit = TRUE]
        ELSE IF isdigit(c)
        THEN [v EXCEPT !.len = @ + 1, !.b = @ + 1]
        ELSE IF v.len = 0
        THEN ValidateReturn(v, "S3StatusInvalidBucketNameFirstCharacter")
        ELSE IF c = "_"
        THEN IF virtualHostStyle(v)
             THEN ValidateReturn(v, "S3StatusInvalidBucketNameCharacter")
             ELSE [v EXCEPT !.len = @ + 1, !.b = @ + 1, !.hasNonDigit = TRUE]
        ELSE IF c = "-"
        THEN IF virtualHostStyle(v) /\ v.b > 0 /\ CharAt(v.bucketName, v.b - 1) = "."
             THEN ValidateReturn(v, "S3StatusInvalidBucketNameCharacterSequence")
             ELSE [v EXCEPT !.len = @ + 1, !.b = @ + 1, !.hasNonDigit = TRUE]
        ELSE IF c = "."
        THEN [v EXCEPT !.len = @ + 1, !.b = @ + 1, !.hasDot = TRUE]
        ELSE ValidateReturn(v, "S3StatusInvalidBucketNameCharacter")

\* Variant of ValidateScan that tests for '_', '-' and '.' before it tests
\* for the first character.
ValidateScan_PunctuationFirst(v) ==
    LET c == CharAt(v.bucketName, v.b)
    IN  IF v.len = maxlen(v)
        THEN ValidateReturn(v, "S3StatusInvalidBucketNameTooLong")
        ELSE IF isalpha(c)
        THEN [v EXCEPT !.len = @ + 1, !.b = @ + 1, !.hasNonDigit = TRUE]
        ELSE IF isdigit(c)
        THEN [v EXCEPT !.len = @ + 1, !.b = @ + 1]
        ELSE IF c = "_"
        THEN IF virtualHostStyle(v)
             THEN ValidateReturn(v, "S3StatusInvalidBucketNameCharacter")
             ELSE [v EXCEPT !.len = @ + 1, !.b = @ + 1, !.hasNonDigit = TRUE]
        ELSE IF c = "-"
        THEN IF virtualHostStyle(v) /\ v.b > 0 /\ CharAt(v.bucketName, v.b - 1) = "."
             THEN ValidateReturn(v, "S3StatusInvalidBucketNameCharacterSequence")
             ELSE [v EXCEPT !.len = @ + 1, !.b = @ + 1, !.hasNonDigit = TRUE]
        ELSE IF c = "."
        THEN IF virtualHostStyle(v) /\ v.b > 0 /\ CharAt(v.bucketName, v.b - 1) = "-"
             THEN ValidateReturn(v, "S3StatusInvalidBucketNameCharacterSequence")
             ELSE [v EXCEPT !.len = @ + 1, !.b = @ + 1, !.hasDot = TRUE]
        ELSE IF v.len = 0
        THEN ValidateReturn(v, "S3StatusInvalidBucketNameFirstCharacter")
        ELSE ValidateReturn(v, "S3StatusInvalidBucketNameCharacter")

\* Variant of ValidateScan that rejects '_' under the path style and
\* accepts it under the virtual host style.
ValidateScan_UnderscoreSwapped(v) ==
    LET c == CharAt(v.bucketName, v.b)
    IN  IF v.len = maxlen(v)
        THEN ValidateReturn(v, "S3StatusInvalidBucketNameTooLong")
        ELSE IF isalpha(c)
        THEN [v EXCEPT !.len = @ + 1, !.b = @ + 1, !.hasNonDigit = TRUE]
        ELSE IF isdigit(c)
        THEN [v EXCEPT !.len = @ + 1, !.b = @ + 1]
        ELSE IF v.len = 0
        THEN ValidateReturn(v, "S3StatusInvalidBucketNameFirstCharacter")
        ELSE IF c = "_"
        THEN IF ~virtualHostStyle(v)
             THEN ValidateReturn(v, "S3StatusInvalidBucketNameCharacter")
             ELSE [v EXCEPT !.len = @ + 1, !.b = @ + 1, !.hasNonDigit = TRUE]
        ELSE IF c = "-"
        THEN IF virtualHostStyle(v) /\ v.b > 0 /\ CharAt(v.bucketName, v.b - 1) = "."
             THEN ValidateReturn(v, "S3StatusInvalidBucketNameCharacterSequence")
             ELSE [v EXCEPT !.len = @ + 1, !.b = @ + 1, !.hasNonDigit = TRUE]
        ELSE IF c = "."
        THEN IF virtualHostStyle(v) /\ v.b > 0 /\ CharAt(v.bucketName, v.b - 1) = "-"
             THEN ValidateReturn(v, "S3StatusInvalidBucketNameCharacterSequence")
             ELSE [v EXCEPT !.len = @ + 1, !.b = @ + 1, !.hasDot = TRUE]
        ELSE ValidateReturn(v, "S3StatusInvalidBucketNameCharacter")

\* One iteration of the loop while (*b): the character at b is not the
\* terminator.
ValidateScan(v) ==
    LET c == CharAt(v.bucketName, v.b)
    IN  IF v.len = maxlen(v)
        THEN ValidateReturn(v, "S3StatusInvalidBucketNameTooLong")
        ELSE IF isalpha(c)
        THEN [v EXCEPT !.len = @ + 1, !.b = @ + 1, !.hasNonDigit = TRUE]
        ELSE IF isdigit(c)
        THEN [v EXCEPT !.len = @ + 1, !.b = @ + 1]
        ELSE IF v.len = 0
        THEN ValidateReturn(v, "S3StatusInvalidBucketNameFirstCharacter")
        ELSE IF c = "_"
        THEN IF virtualHostStyle(v)
             THEN ValidateReturn(v, "S3StatusInvalidBucketNameCharacter")
             ELSE [v EXCEPT !.len = @ + 1, !.b = @ + 1, !.hasNonDigit = TRUE]
        ELSE IF c = "-"
        THEN IF virtualHostStyle(v) /\ v.b > 0 /\ CharAt(v.bucketName, v.b - 1) = "."
             THEN ValidateReturn(v, "S3StatusInvalidBucketNameCharacterSequence")
             ELSE [v EXCEPT !.len = @ + 1, !.b = @ + 1, !.hasNonDigit = TRUE]
        ELSE IF c = "."
        THEN IF virtualHostStyle(v) /\ v.b > 0 /\ CharAt(v.bucketName, v.b - 1) = "-"
             THEN ValidateReturn(v, "S3StatusInvalidBucketNameCharacterSequence")
             ELSE [v EXCEPT !.len = @ + 1, !.b = @ + 1, !.hasDot = TRUE]
        ELSE ValidateReturn(v, "S3StatusInvalidBucketNameCharacter")

\* Variant of ValidateFinish that rejects a name of digits with or without
\* a dot.
ValidateFinish_NoDotNeeded(v) ==
    IF v.len < 3
    THEN ValidateReturn(v, "S3StatusInvalidBucketNameTooShort")
    ELSE IF ~v.hasNonDigit
    THEN ValidateReturn(v, "S3StatusInvalidBucketNameDotQuadNotation")
    ELSE ValidateReturn(v, "S3StatusOK")

\* Variant of ValidateFinish that tests for digits and dots before it tests
\* the length.
ValidateFinish_DotQuadFirst(v) ==
    IF v.hasDot /\ ~v.hasNonDigit
    THEN ValidateReturn(v, "S3StatusInvalidBucketNameDotQuadNotation")
    ELSE IF v.len < 3
    THEN ValidateReturn(v, "S3StatusInvalidBucketNameTooShort")
    ELSE ValidateReturn(v, "S3StatusOK")

\* What follows the loop, once b is at the terminator.
ValidateFinish(v) ==
    IF v.len < 3
    THEN ValidateReturn(v, "S3StatusInvalidBucketNameTooShort")
    ELSE IF v.hasDot /\ ~v.hasNonDigit
    THEN ValidateReturn(v, "S3StatusInvalidBucketNameDotQuadNotation")
    ELSE ValidateReturn(v, "S3StatusOK")

\* no call of the function
ValIdle == [pc |-> "idle"]

\* no call for either style
BothIdle == [u \in UriStyles |-> ValIdle]

\* no call of S3_initialize
LibIdle == [pc |-> "idle"]

(***************************************************************************)
(* S3_status_is_retryable.                                                 *)
(***************************************************************************)
\* Variant of S3_status_is_retryable that also retries S3StatusInternalError.
S3_status_is_retryable_InternalError(status) ==
    IF status \in {"S3StatusNameLookupError", "S3StatusFailedToConnect",
                   "S3StatusConnectionFailed", "S3StatusErrorInternalError",
                   "S3StatusInternalError",
                   "S3StatusErrorOperationAborted", "S3StatusErrorRequestTimeout"}
    THEN 1 ELSE 0

S3_status_is_retryable(status) ==
    IF status \in {"S3StatusNameLookupError", "S3StatusFailedToConnect",
                   "S3StatusConnectionFailed", "S3StatusErrorInternalError",
                   "S3StatusErrorOperationAborted", "S3StatusErrorRequestTimeout"}
    THEN 1 ELSE 0

\* no call of the function
RetryIdle == [pc |-> "idle"]

(***************************************************************************)
(* State machine.                                                          *)
(***************************************************************************)
Init ==
    /\ conv \in [Callers -> UNION {PriorStorage(c) : c \in Callers}]
    /\ \A c \in Callers : conv[c] \in PriorStorage(c)
    /\ hist = [c \in Callers |-> NoHistory]
    /\ docClass \in DocClasses
    /\ delivered = 0
    /\ val = ValIdle
    /\ retry = RetryIdle
    /\ both = BothIdle
    /\ lib = LibIdle

Parsing(c) == conv[c].pc = "parse"

\* what the walker of a call observes when it hands an event to the callback
Observe(h, d, elementPath, hasData, data) ==
    LET r == convertAclXmlCallback(d, elementPath, hasData, data)
        isGrantEnd == ~hasData /\ elementPath = PathGrant
    IN  [processed |-> h.processed + 1,
         closed |-> h.closed + (IF isGrantEnd THEN 1 ELSE 0),
         materialized |-> h.materialized
                            + (IF isGrantEnd /\ r.ret = "S3StatusOK" THEN 1 ELSE 0),
         firstFail |-> IF h.firstFail = "none" /\ r.ret # "S3StatusOK"
                       THEN r.ret ELSE h.firstFail,
         failedAt |-> IF r.ret # "S3StatusOK"
                      THEN [elementPath |-> elementPath, hasData |-> hasData]
                      ELSE h.failedAt,
         lastGrantEnd |-> IF isGrantEnd THEN Snapshot(d, TRUE) ELSE h.lastGrantEnd,
         lastEvent |-> [elementPath |-> elementPath, hasData |-> hasData],
         ownerIdText |-> IF hasData /\ elementPath = PathOwnerId
                                    /\ r.ret = "S3StatusOK"
                         THEN h.ownerIdText \o data ELSE h.ownerIdText,
         ownerDisplayNameText |-> IF hasData /\ elementPath = PathOwnerDisplayName
                                             /\ r.ret = "S3StatusOK"
                                  THEN h.ownerDisplayNameText \o data
                                  ELSE h.ownerDisplayNameText,
         grantTexts |-> IF r.ret # "S3StatusOK" THEN h.grantTexts
                        ELSE IF isGrantEnd THEN NoTexts
                        ELSE IF hasData THEN AddText(h.grantTexts, elementPath, data)
                        ELSE h.grantTexts]

\* both callers call S3_convert_acl on the document
Call ==
    /\ \A c \in Callers : conv[c].pc = "call"
    /\ conv' = [c \in Callers |-> ConvertAclInitialize(conv[c])]
    /\ UNCHANGED <<hist, docClass, delivered>>
    /\ UNCHANGED callVars

\* The document holds one more event.  The walker of a call that is still
\* parsing hands it to the callback; a call that has returned sees no more
\* of the document.
Event(elementPath, hasData, data) ==
    /\ delivered < MaxDocEvents(docClass)
    /\ \A c \in Callers : conv[c].pc # "call"
    /\ conv' = [c \in Callers |->
                  IF Parsing(c) THEN Deliver(conv[c], elementPath, hasData, data)
                  ELSE conv[c]]
    /\ hist' = [c \in Callers |->
                  IF Parsing(c)
                  THEN Observe(hist[c], conv[c], elementPath, hasData, data)
                  ELSE hist[c]]
    /\ delivered' = delivered + 1
    /\ UNCHANGED docClass
    /\ UNCHANGED callVars

\* the walker reports a text chunk of an element
Text == \E p \in TextPaths : \E data \in Chunks(docClass, p) : Event(p, TRUE, data)

\* the walker reports the close of an element
ElementEnd == \E p \in EndPaths(docClass) : Event(p, FALSE, "")

\* the walker cannot parse what follows
ParseFailure ==
    /\ \E c \in Callers : Parsing(c)
    /\ conv' = [c \in Callers |->
                  IF Parsing(c) THEN WalkerEnd(conv[c], "S3StatusXmlParseFailure")
                  ELSE conv[c]]
    /\ hist' = [c \in Callers |->
                  IF Parsing(c) /\ hist[c].firstFail = "none"
                  THEN [hist[c] EXCEPT !.firstFail = "S3StatusXmlParseFailure"]
                  ELSE hist[c]]
    /\ UNCHANGED <<docClass, delivered>>
    /\ UNCHANGED callVars

\* the document ends
EndOfDocument ==
    /\ \E c \in Callers : Parsing(c)
    /\ conv' = [c \in Callers |->
                  IF Parsing(c) THEN WalkerEnd(conv[c], "S3StatusOK") ELSE conv[c]]
    /\ UNCHANGED <<hist, docClass, delivered>>
    /\ UNCHANGED callVars

Next == Call \/ Text \/ ElementEnd \/ ParseFailure \/ EndOfDocument

Spec == Init /\ [][Next]_vars

\* no conversion is under way
AclIdle ==
    /\ conv = [c \in Callers |-> ZeroStorage]
    /\ hist = [c \in Callers |-> NoHistory]
    /\ docClass = "none"
    /\ delivered = 0

(***************************************************************************)
(* Calls of S3_validate_bucket_name.                                       *)
(***************************************************************************)
\* Names are made of these characters: two letters, a digit, the three
\* punctuation characters of the grammar, a control character and one
\* other character.
NameChars == {"a", "Z", "5", "_", "-", ".", "\t", "/"}

\* Short names have up to MaxNameLen characters.
MaxNameLen == 4

\* Long names are a run of letters followed by up to two characters; the
\* run is up to PadSlack characters shorter than the longest name of the
\* style.
PadSlack == 1

RECURSIVE NamesOfLen(_)
NamesOfLen(n) ==
    IF n = 0 THEN {""}
    ELSE {s \o c : s \in NamesOfLen(n - 1), c \in NameChars}

ShortNames == UNION {NamesOfLen(n) : n \in 0 .. MaxNameLen}

Tails == {""} \cup NameChars \cup {c \o d : c \in NameChars, d \in NameChars}

LongNames(uriStyle) ==
    LET m == IF uriStyle = "S3UriStyleVirtualHost" THEN 63 ELSE 255
    IN  {Fill(n) \o t : n \in (m - PadSlack) .. m, t \in Tails}

InitValidate ==
    /\ val \in {ValidateEnter(bucketName, uriStyle) :
                   bucketName \in ShortNames \cup LongNames("S3UriStyleVirtualHost")
                                   \cup LongNames("S3UriStylePath"),
                   uriStyle \in UriStyles}
    /\ retry = RetryIdle
    /\ both = BothIdle
    /\ lib = LibIdle
    /\ AclIdle

\* the loop meets a character of the name
ScanCharacter ==
    /\ val.pc = "scan"
    /\ val.b < Len(val.bucketName)
    /\ val' = ValidateScan(val)
    /\ UNCHANGED <<aclVars, retry, both, lib>>

\* the loop meets the terminator of the name
EndOfName ==
    /\ val.pc = "scan"
    /\ val.b = Len(val.bucketName)
    /\ val' = ValidateFinish(val)
    /\ UNCHANGED <<aclVars, retry, both, lib>>

NextValidate == ScanCharacter \/ EndOfName

SpecValidate == InitValidate /\ [][NextValidate]_vars

(***************************************************************************)
(* One name validated under both styles.                                   *)
(***************************************************************************)
InitValidateBoth ==
    /\ both \in {[u \in UriStyles |-> ValidateEnter(bucketName, u)] :
                    bucketName \in ShortNames \cup LongNames("S3UriStyleVirtualHost")
                                    \cup LongNames("S3UriStylePath")}
    /\ val = ValIdle
    /\ retry = RetryIdle
    /\ lib = LibIdle
    /\ AclIdle

\* the next step of a call: an iteration of the loop, what follows the
\* loop, or nothing once the call has returned
ValidateStep(v) ==
    IF v.pc # "scan" THEN v
    ELSE IF v.b < Len(v.bucketName) THEN ValidateScan(v)
    ELSE ValidateFinish(v)

\* each of the two calls that has not returned takes its next step
StepBoth ==
    /\ \E u \in UriStyles : both[u].pc = "scan"
    /\ both' = [u \in UriStyles |-> ValidateStep(both[u])]
    /\ UNCHANGED <<aclVars, val, retry, lib>>

NextValidateBoth == StepBoth

SpecValidateBoth == InitValidateBoth /\ [][NextValidateBoth]_vars

(***************************************************************************)
(* Calls of S3_status_is_retryable.                                        *)
(***************************************************************************)
\* the values of S3Status, as S3_get_status_name lists them
S3StatusNames ==
    {"S3StatusOK", "S3StatusInternalError", "S3StatusOutOfMemory",
     "S3StatusInterrupted", "S3StatusFailedToCreateMutex",
     "S3StatusInvalidBucketNameTooLong",
     "S3StatusInvalidBucketNameFirstCharacter",
     "S3StatusInvalidBucketNameCharacter",
     "S3StatusInvalidBucketNameCharacterSequence",
     "S3StatusInvalidBucketNameTooShort",
     "S3StatusInvalidBucketNameDotQuadNotation",
     "S3StatusQueryParamsTooLong", "S3StatusFailedToInitializeRequest",
     "S3StatusMetaDataHeadersTooLong", "S3StatusBadMetaData",
     "S3StatusBadContentType", "S3StatusContentTypeTooLong",
     "S3StatusBadMD5", "S3StatusMD5TooLong", "S3StatusBadCacheControl",
     "S3StatusCacheControlTooLong", "S3StatusBadContentDispositionFilename",
     "S3StatusContentDispositionFilenameTooLong",
     "S3StatusBadContentEncoding", "S3StatusContentEncodingTooLong",
     "S3StatusBadIfMatchETag", "S3StatusIfMatchETagTooLong",
     "S3StatusBadIfNotMatchETag", "S3StatusIfNotMatchETagTooLong",
     "S3StatusHeadersTooLong", "S3StatusKeyTooLong", "S3StatusUriTooLong",
     "S3StatusXmlParseFailure", "S3StatusBadAclEmailAddressTooLong",
     "S3StatusBadAclUserIdTooLong", "S3StatusBadAclUserDisplayNameTooLong",
     "S3StatusBadAclGroupUriTooLong", "S3StatusBadAclPermissionTooLong",
     "S3StatusTooManyAclGrants", "S3StatusBadAclGrantee",
     "S3StatusBadAclPermission", "S3StatusAclXmlDocumentTooLarge",
     "S3StatusNameLookupError", "S3StatusFailedToConnect",
     "S3StatusServerFailedVerification", "S3StatusConnectionFailed",
     "S3StatusAbortedByCallback", "S3StatusErrorAccessDenied",
     "S3StatusErrorAccountProblem",
     "S3StatusErrorAmbiguousGrantByEmailAddress", "S3StatusErrorBadDigest",
     "S3StatusErrorBucketAlreadyExists",
     "S3StatusErrorBucketAlreadyOwnedByYou", "S3StatusErrorBucketNotEmpty",
     "S3StatusErrorCredentialsNotSupported",
     "S3StatusErrorCrossLocationLoggingProhibited",
     "S3StatusErrorEntityTooSmall", "S3StatusErrorEntityTooLarge",
     "S3StatusErrorExpiredToken", "S3StatusErrorIncompleteBody",
     "S3StatusErrorIncorrectNumberOfFilesInPostRequest",
     "S3StatusErrorInlineDataTooLarge", "S3StatusErrorInternalError",
     "S3StatusErrorInvalidAccessKeyId",
     "S3StatusErrorInvalidAddressingHeader", "S3StatusErrorInvalidArgument",
     "S3StatusErrorInvalidBucketName", "S3StatusErrorInvalidDigest",
     "S3StatusErrorInvalidLocationConstraint", "S3StatusErrorInvalidPayer",
     "S3StatusErrorInvalidPolicyDocument", "S3StatusErrorInvalidRange",
     "S3StatusErrorInvalidSecurity", "S3StatusErrorInvalidSOAPRequest",
     "S3StatusErrorInvalidStorageClass",
     "S3StatusErrorInvalidTargetBucketForLogging",
     "S3StatusErrorInvalidToken", "S3StatusErrorInvalidURI",
     "S3StatusErrorKeyTooLong", "S3StatusErrorMalformedACLError",
     "S3StatusErrorMalformedXML", "S3StatusErrorMaxMessageLengthExceeded",
     "S3StatusErrorMaxPostPreDataLengthExceededError",
     "S3StatusErrorMetadataTooLarge", "S3StatusErrorMethodNotAllowed",
     "S3StatusErrorMissingAttachment", "S3StatusErrorMissingContentLength",
     "S3StatusErrorMissingSecurityElement",
     "S3StatusErrorMissingSecurityHeader",
     "S3StatusErrorNoLoggingStatusForKey", "S3StatusErrorNoSuchBucket",
     "S3StatusErrorNoSuchKey", "S3StatusErrorNotImplemented",
     "S3StatusErrorNotSignedUp", "S3StatusErrorOperationAborted",
     "S3StatusErrorPermanentRedirect", "S3StatusErrorPreconditionFailed",
     "S3StatusErrorRedirect", "S3StatusErrorRequestIsNotMultiPartContent",
     "S3StatusErrorRequestTimeout", "S3StatusErrorRequestTimeTooSkewed",
     "S3StatusErrorRequestTorrentOfBucketError",
     "S3StatusErrorSignatureDoesNotMatch", "S3StatusErrorSlowDown",
     "S3StatusErrorTemporaryRedirect", "S3StatusErrorTokenRefreshRequired",
     "S3StatusErrorTooManyBuckets", "S3StatusErrorUnexpectedContent",
     "S3StatusErrorUnresolvableGrantByEmailAddress",
     "S3StatusErrorUserKeyMustBeSpecified", "S3StatusErrorUnknown",
     "S3StatusHttpErrorMovedTemporarily", "S3StatusHttpErrorBadRequest",
     "S3StatusHttpErrorForbidden", "S3StatusHttpErrorNotFound",
     "S3StatusHttpErrorConflict", "S3StatusHttpErrorUnknown"}

\* a value that is none of the enumerators
S3StatusUnnamed == "S3Status(200)"

InitRetryable ==
    /\ retry \in {[pc |-> "call", status |-> status, ret |-> 0] :
                     status \in S3StatusNames \cup {S3StatusUnnamed}}
    /\ val = ValIdle
    /\ both = BothIdle
    /\ lib = LibIdle
    /\ AclIdle

IsRetryable ==
    /\ retry.pc = "call"
    /\ retry' = [retry EXCEPT !.pc = "done",
                              !.ret = S3_status_is_retryable(retry.status)]
    /\ UNCHANGED <<aclVars, val, both, lib>>

NextRetryable == IsRetryable

SpecRetryable == InitRetryable /\ [][NextRetryable]_vars

(***************************************************************************)
(* Calls of S3_initialize.  The lock table pLocksG has count entries;      *)
(* created[i] and destroyed[i] count the calls of mutex_create that gave   *)
(* entry i a mutex and the calls of mutex_destroy on entry i; allocated    *)
(* and freed count the tables that malloc returned and that free was       *)
(* given.                                                                  *)
(***************************************************************************)
\* Largest number of locks that CRYPTO_num_locks returns.
MaxLocks == 4

\* statuses with which request_api_initialize can fail
RequestApiFailures == {"S3StatusInternalError", "S3StatusOutOfMemory"}

\* The call has stored the four mutex callbacks and has read the count.
\* callbacks tells whether the caller supplied mutex callbacks; without
\* them mutex_create returns a non-null dummy.
InitializeEnter(count, callbacks) ==
    [pc |-> "malloc", ret |-> "none", count |-> count, callbacks |-> callbacks,
     i |-> 0, status |-> "none",
     allocated |-> 0, freed |-> 0,
     created |-> [k \in 0 .. (count - 1) |-> 0],
     destroyed |-> [k \in 0 .. (count - 1) |-> 0]]

InitInitialize ==
    /\ lib \in {InitializeEnter(count, callbacks) :
                   count \in 1 .. MaxLocks, callbacks \in BOOLEAN}
    /\ val = ValIdle
    /\ retry = RetryIdle
    /\ both = BothIdle
    /\ AclIdle

LibUnchanged == UNCHANGED <<aclVars, val, retry, both>>

\* pLocksG = malloc(...): the table, or the return of S3StatusOutOfMemory
AllocateLocks ==
    /\ lib.pc = "malloc"
    /\ \E ok \in BOOLEAN :
          lib' = IF ok
                 THEN [lib EXCEPT !.allocated = @ + 1, !.pc = "create"]
                 ELSE [lib EXCEPT !.pc = "done", !.ret = "S3StatusOutOfMemory"]
    /\ LibUnchanged

\* pLocksG[i] = mutex_create() in the loop over the table; a create
\* callback can return null, which starts the loop that destroys
CreateMutex ==
    /\ lib.pc = "create"
    /\ lib.i < lib.count
    /\ \E ok \in (IF lib.callbacks THEN BOOLEAN ELSE {TRUE}) :
          lib' = IF ok
                 THEN [lib EXCEPT !.created[lib.i] = @ + 1, !.i = @ + 1]
                 ELSE [lib EXCEPT !.pc = "unwind"]
    /\ LibUnchanged

\* while (i-- > 0) mutex_destroy(pLocksG[i])
DestroyCreated ==
    /\ lib.pc = "unwind"
    /\ lib.i > 0
    /\ lib' = [lib EXCEPT !.i = @ - 1, !.destroyed[lib.i - 1] = @ + 1]
    /\ LibUnchanged

\* the loop that destroys is over: return S3StatusFailedToCreateMutex
ReturnFailedToCreateMutex ==
    /\ lib.pc = "unwind"
    /\ lib.i = 0
    /\ lib' = [lib EXCEPT !.i = @ - 1, !.pc = "done",
                          !.ret = "S3StatusFailedToCreateMutex"]
    /\ LibUnchanged

\* the table is complete: the CRYPTO callbacks are set and
\* request_api_initialize is called; S3StatusOK is returned at once, any
\* other status after deinitialize_locks
RequestApiInitialize ==
    /\ lib.pc = "create"
    /\ lib.i = lib.count
    /\ \E status \in {"S3StatusOK"} \cup RequestApiFailures :
          lib' = IF status = "S3StatusOK"
                 THEN [lib EXCEPT !.status = status, !.pc = "done",
                                  !.ret = "S3StatusOK"]
                 ELSE [lib EXCEPT !.status = status, !.pc = "deinitialize",
                                  !.i = 0]
    /\ LibUnchanged

\* deinitialize_locks: mutex_destroy(pLocksG[i]) in the loop over the table
DeinitializeDestroy ==
    /\ lib.pc = "deinitialize"
    /\ lib.i < lib.count
    /\ lib' = [lib EXCEPT !.destroyed[lib.i] = @ + 1, !.i = @ + 1]
    /\ LibUnchanged

\* deinitialize_locks: free(pLocksG); S3_initialize returns the status
DeinitializeFree ==
    /\ lib.pc = "deinitialize"
    /\ lib.i = lib.count
    /\ lib' = [lib EXCEPT !.freed = @ + 1, !.pc = "done", !.ret = lib.status]
    /\ LibUnchanged

NextInitialize ==
    \/ AllocateLocks \/ CreateMutex \/ DestroyCreated
    \/ ReturnFailedToCreateMutex \/ RequestApiInitialize
    \/ DeinitializeDestroy \/ DeinitializeFree

SpecInitialize == InitInitialize /\ [][NextInitialize]_vars

(***************************************************************************)
(* Vocabulary of the properties.                                           *)
(***************************************************************************)
PermissionLiterals == {"READ", "WRITE", "READ_ACP", "WRITE_ACP", "FULL_CONTROL"}

PermissionNamed(text) ==
    CASE text = "READ" -> "S3PermissionRead"
      [] text = "WRITE" -> "S3PermissionWrite"
      [] text = "READ_ACP" -> "S3PermissionReadACP"
      [] text = "WRITE_ACP" -> "S3PermissionWriteACP"
      [] text = "FULL_CONTROL" -> "S3PermissionFullControl"
      [] OTHER -> "BadPermission"

\* the subject kind the priority rule gives to the data b of a Grant close
KindByPriority(b) ==
    IF b.emailAddress # "" THEN "S3GranteeTypeAmazonCustomerByEmail"
    ELSE IF b.userId # "" /\ b.userDisplayName # "" THEN "S3GranteeTypeCanonicalUser"
    ELSE IF b.groupUri = UriAuthenticatedUsers THEN "S3GranteeTypeAllAwsUsers"
    ELSE IF b.groupUri = UriAllUsers THEN "S3GranteeTypeAllUsers"
    ELSE "BadGrantee"

\* what a reader of a grant sees: kind, the subject data of that kind, permission
SubjectData(g) ==
    IF g.granteeType = "S3GranteeTypeAmazonCustomerByEmail"
    THEN <<g.grantee.member, g.grantee.emailAddress>>
    ELSE IF g.granteeType = "S3GranteeTypeCanonicalUser"
    THEN <<g.grantee.member, g.grantee.id, g.grantee.displayName>>
    ELSE <<>>

GrantView(g) == <<g.granteeType, SubjectData(g), g.permission>>

\* the view of the grant that the data b of a Grant close describes
GrantDescribed(b) ==
    <<KindByPriority(b),
      IF KindByPriority(b) = "S3GranteeTypeAmazonCustomerByEmail"
      THEN <<"amazonCustomerByEmail", b.emailAddress>>
      ELSE IF KindByPriority(b) = "S3GranteeTypeCanonicalUser"
      THEN <<"canonicalUser", b.userId, b.userDisplayName>>
      ELSE <<>>,
      PermissionNamed(b.permission)>>

Failed(c, status) == conv[c].pc = "done" /\ conv[c].status = status

FailedAtGrantEnd(c) ==
    hist[c].failedAt = [elementPath |-> PathGrant, hasData |-> FALSE]

\* the seven text fields
OverflowFields ==
    {PathOwnerId, PathOwnerDisplayName, PathEmailAddress, PathGranteeId,
     PathGranteeDisplayName, PathGroupUri, PathPermission}

\* the status the callback returns for a text too long for the field at p
OverflowStatus(p) ==
    convertAclXmlCallback(ConvertAclInitialize(ZeroStorage), p, TRUE, LongText).ret

FailedAtText(c, p) ==
    /\ conv[c].pc = "done"
    /\ hist[c].failedAt = [elementPath |-> p, hasData |-> TRUE]

\* the statuses the callback has for the overflow of each field
OverflowStatusTable(p) ==
    CASE p = PathOwnerId -> "S3StatusBadAclUserIdTooLong"
      [] p = PathGranteeId -> "S3StatusBadAclUserIdTooLong"
      [] p = PathOwnerDisplayName -> "S3StatusBadAclUserDisplayNameTooLong"
      [] p = PathGranteeDisplayName -> "S3StatusBadAclUserDisplayNameTooLong"
      [] p = PathEmailAddress -> "S3StatusBadAclEmailAddressTooLong"
      [] p = PathGroupUri -> "S3StatusBadAclGroupUriTooLong"
      [] p = PathPermission -> "S3StatusBadAclPermissionTooLong"

\* the fields whose overflow has the same status as that of p
SharesStatusWith(p) ==
    CASE p = PathOwnerId -> {PathGranteeId}
      [] p = PathGranteeId -> {PathOwnerId}
      [] p = PathOwnerDisplayName -> {PathGranteeDisplayName}
      [] p = PathGranteeDisplayName -> {PathOwnerDisplayName}
      [] OTHER -> {}

(***************************************************************************)
(* C1.  A Grant close that finds room in the array and a valid permission  *)
(* text decides the subject kind by priority: a non-empty email gives      *)
(* ByEmail whatever else is populated; else grantee id and display name    *)
(* both non-empty give CanonicalUser; else the AuthenticatedUsers URI      *)
(* gives AllAwsUsers and the AllUsers URI gives AllUsers; any other URI,   *)
(* and no URI, fail with BadAclGrantee.                                    *)
(***************************************************************************)
C1_GranteePriority ==
    \A c \in Callers :
        LET b == hist[c].lastGrantEnd
        IN  (/\ b.seen
             /\ b.aclGrantCount < S3_MAX_ACL_GRANT_COUNT
             /\ b.permission \in PermissionLiterals)
            => IF KindByPriority(b) = "BadGrantee"
               THEN /\ Failed(c, "S3StatusBadAclGrantee")
                    /\ FailedAtGrantEnd(c)
               ELSE /\ conv[c].aclGrantCount > b.aclGrantCount
                    /\ conv[c].aclGrants[b.aclGrantCount].granteeType
                         = KindByPriority(b)

\* a grant closed with all four subject accumulators populated is ByEmail
C1_Witness ==
    \E c \in Callers :
        LET b == hist[c].lastGrantEnd
        IN  /\ b.seen /\ b.aclGrantCount = 0
            /\ b.emailAddress # "" /\ b.userId # ""
            /\ b.userDisplayName # "" /\ b.groupUri = UriAllUsers
            /\ b.permission = "READ"
            /\ conv[c].aclGrantCount = 1
            /\ conv[c].aclGrants[0].granteeType = "S3GranteeTypeAmazonCustomerByEmail"

(***************************************************************************)
(* C2.  A grant that closes with a grantee id but no grantee display name  *)
(* is never emitted as CanonicalUser.  With room in the array: if email    *)
(* and group URI are empty too, the close fails with BadAclGrantee and the *)
(* count stays; if the email is empty, the group URI is a well-known one   *)
(* and the permission text is valid, the grant is emitted with the kind of *)
(* that group and the id is stored nowhere in it.                          *)
(***************************************************************************)
C2_IdWithoutDisplayName ==
    \A c \in Callers :
        LET b == hist[c].lastGrantEnd
            room == b.aclGrantCount < S3_MAX_ACL_GRANT_COUNT
            emitted == conv[c].aclGrantCount > b.aclGrantCount
        IN  (b.seen /\ b.userId # "" /\ b.userDisplayName = "")
            => /\ emitted =>
                    conv[c].aclGrants[b.aclGrantCount].granteeType
                        # "S3GranteeTypeCanonicalUser"
               /\ (room /\ b.emailAddress = "" /\ b.groupUri = "")
                    => /\ Failed(c, "S3StatusBadAclGrantee")
                       /\ FailedAtGrantEnd(c)
                       /\ conv[c].aclGrantCount = b.aclGrantCount
               /\ (/\ room /\ b.emailAddress = ""
                   /\ b.groupUri \in {UriAuthenticatedUsers, UriAllUsers}
                   /\ b.permission \in PermissionLiterals)
                    => /\ emitted
                       /\ conv[c].aclGrants[b.aclGrantCount].granteeType
                            = (IF b.groupUri = UriAllUsers
                               THEN "S3GranteeTypeAllUsers"
                               ELSE "S3GranteeTypeAllAwsUsers")
                       /\ conv[c].aclGrants[b.aclGrantCount].grantee
                            = b.aclGrants[b.aclGrantCount].grantee

\* the regression case: id only, then the close, ends in BadAclGrantee
C2_Witness ==
    \E c \in Callers :
        LET b == hist[c].lastGrantEnd
        IN  /\ b.seen /\ b.userId = "id1" /\ b.userDisplayName = ""
            /\ b.emailAddress = "" /\ b.groupUri = "" /\ b.permission = "READ"
            /\ Failed(c, "S3StatusBadAclGrantee")
            /\ conv[c].aclGrantCount = 0

(***************************************************************************)
(* C3.  Once the array holds S3_MAX_ACL_GRANT_COUNT grants, the close of   *)
(* one more Grant element fails with TooManyAclGrants whatever the         *)
(* accumulators hold; the count stays at the capacity and no element of    *)
(* the array is written.                                                   *)
(***************************************************************************)
C3_TooManyGrants ==
    \A c \in Callers :
        LET b == hist[c].lastGrantEnd
        IN  (b.seen /\ b.aclGrantCount = S3_MAX_ACL_GRANT_COUNT)
            => /\ Failed(c, "S3StatusTooManyAclGrants")
               /\ FailedAtGrantEnd(c)
               /\ hist[c].materialized = S3_MAX_ACL_GRANT_COUNT
               /\ conv[c].aclGrantCount = S3_MAX_ACL_GRANT_COUNT
               /\ conv[c].aclGrants = b.aclGrants

\* a well-formed grant closes on a full array
C3_Witness ==
    \E c \in Callers :
        LET b == hist[c].lastGrantEnd
        IN  /\ b.seen /\ b.aclGrantCount = S3_MAX_ACL_GRANT_COUNT
            /\ b.emailAddress = "a@b.c" /\ b.permission = "READ"
            /\ hist[c].materialized = S3_MAX_ACL_GRANT_COUNT
            /\ Failed(c, "S3StatusTooManyAclGrants")

(***************************************************************************)
(* C4.  During and after a conversion the grant count lies between 0 and   *)
(* the capacity and equals the number of Grant closes that succeeded so    *)
(* far: it starts at 0, grows by one with each successful Grant close and  *)
(* is changed by nothing else.                                             *)
(***************************************************************************)
C4_GrantCountRange ==
    \A c \in Callers :
        conv[c].pc # "call"
        => /\ conv[c].aclGrantCount \in 0 .. S3_MAX_ACL_GRANT_COUNT
           /\ conv[c].aclGrantCount = hist[c].materialized

\* one grant materialized, then text events and a Grant close that failed
C4_Witness ==
    \E c \in Callers :
        /\ conv[c].pc = "done"
        /\ conv[c].aclGrantCount = 1
        /\ hist[c].closed = 2
        /\ hist[c].processed > 4
        /\ conv[c].status = "S3StatusBadAclPermission"

(***************************************************************************)
(* C5.  Grants are appended in the order their elements close: a           *)
(* successful Grant close stores the grant it describes at index           *)
(* grantCount and raises the count by one, and no event, successful or     *)
(* failing, modifies an entry below the count.                             *)
(***************************************************************************)
C5_AppendOrder ==
    [][\A c \in Callers :
         conv[c].pc = "parse"
         => LET d == conv[c]
                e == conv'[c]
                ok == hist'[c].materialized = hist[c].materialized + 1
            IN  /\ \A i \in GrantIndexes :
                      i < d.aclGrantCount => e.aclGrants[i] = d.aclGrants[i]
                /\ ok => /\ e.aclGrantCount = d.aclGrantCount + 1
                         /\ GrantView(e.aclGrants[d.aclGrantCount])
                              = GrantDescribed(Snapshot(d, TRUE))
                /\ ~ok => e.aclGrantCount = d.aclGrantCount]_vars

\* two grants of different kinds, each at the index of its close
C5_Witness ==
    \E c \in Callers :
        /\ conv[c].aclGrantCount = 2
        /\ hist[c].materialized = 2
        /\ GrantView(conv[c].aclGrants[0])
             = <<"S3GranteeTypeAllUsers", <<>>, "S3PermissionRead">>
        /\ GrantView(conv[c].aclGrants[1])
             = <<"S3GranteeTypeAmazonCustomerByEmail",
                 <<"amazonCustomerByEmail", "a@b.c">>, "S3PermissionRead">>

(***************************************************************************)
(* C6.  As claimed: when a Grant close fails with BadAclGrantee or         *)
(* BadAclPermission, the count is unchanged and no element of the grant    *)
(* array, the slot at index grantCount included, is written.               *)
(***************************************************************************)
C6_NothingWrittenOnFailure ==
    \A c \in Callers :
        LET b == hist[c].lastGrantEnd
        IN  (/\ FailedAtGrantEnd(c)
             /\ \/ Failed(c, "S3StatusBadAclGrantee")
                \/ Failed(c, "S3StatusBadAclPermission"))
            => /\ conv[c].aclGrantCount = b.aclGrantCount
               /\ conv[c].aclGrants = b.aclGrants

(***************************************************************************)
(* C6, amended.  When a Grant close fails with BadAclGrantee or            *)
(* BadAclPermission, the count is unchanged and every element other than   *)
(* the slot at index grantCount is unchanged.  A BadAclGrantee failure     *)
(* writes nothing; a BadAclPermission failure has stored the resolved      *)
(* subject kind (and, for ByEmail and CanonicalUser, the subject data) in  *)
(* the slot at index grantCount and left its permission as it was.         *)
(***************************************************************************)
C6_NoRecordAppendedOnFailure ==
    \A c \in Callers :
        LET b == hist[c].lastGrantEnd
            n == b.aclGrantCount
        IN  (/\ FailedAtGrantEnd(c)
             /\ \/ Failed(c, "S3StatusBadAclGrantee")
                \/ Failed(c, "S3StatusBadAclPermission"))
            => /\ conv[c].aclGrantCount = n
               /\ \A i \in GrantIndexes \ {n} : conv[c].aclGrants[i] = b.aclGrants[i]
               /\ Failed(c, "S3StatusBadAclGrantee") => conv[c].aclGrants = b.aclGrants
               /\ Failed(c, "S3StatusBadAclPermission")
                    => /\ conv[c].aclGrants[n].granteeType = KindByPriority(b)
                       /\ conv[c].aclGrants[n].permission = b.aclGrants[n].permission
                       /\ SubjectData(conv[c].aclGrants[n])
                            = GrantDescribed(b)[2]

\* after one grant, a grant with an email and a bad permission text closes:
\* the slot at index 1 holds the email subject, the count is still 1
C6_Witness ==
    \E c \in Callers :
        LET b == hist[c].lastGrantEnd
        IN  /\ FailedAtGrantEnd(c)
            /\ Failed(c, "S3StatusBadAclPermission")
            /\ b.aclGrantCount = 1 /\ conv[c].aclGrantCount = 1
            /\ b.emailAddress = "a@b.c"
            /\ conv[c].aclGrants[1] # b.aclGrants[1]
            /\ conv[c].aclGrants[0] = b.aclGrants[0]

C8_PermissionExactMatch ==
    \A c \in Callers :
        LET b == hist[c].lastGrantEnd
            n == b.aclGrantCount
        IN  (/\ b.seen
             /\ n < S3_MAX_ACL_GRANT_COUNT
             /\ KindByPriority(b) # "BadGrantee")
            => IF b.permission \in PermissionLiterals
               THEN /\ conv[c].aclGrantCount > n
                    /\ conv[c].aclGrants[n].permission = PermissionNamed(b.permission)
               ELSE /\ Failed(c, "S3StatusBadAclPermission")
                    /\ FailedAtGrantEnd(c)
                    /\ conv[c].aclGrantCount = n

\* READ_ACP, delivered in two chunks, gives ReadACP and not Read
C8_Witness ==
    \E c \in Callers :
        LET b == hist[c].lastGrantEnd
        IN  /\ b.seen /\ b.aclGrantCount = 0
            /\ b.permission = "READ_ACP"
            /\ conv[c].aclGrantCount = 1
            /\ conv[c].aclGrants[0].permission = "S3PermissionReadACP"

(***************************************************************************)
(* C9.  Conversion is fail-fast.  The status S3_convert_acl returns is the *)
(* first status other than S3StatusOK that the callback returned, or the   *)
(* walker's own parse failure, and S3StatusOK if there was none; a call    *)
(* is over as soon as there is such a status; nothing the document holds   *)
(* after it changes the result; the count on return is the number of       *)
(* grants materialized before, and without a failure the number of Grant   *)
(* elements closed.                                                        *)
(***************************************************************************)
C9_FailFast ==
    /\ [](\A c \in Callers :
            /\ conv[c].pc = "parse" => hist[c].firstFail = "none"
            /\ conv[c].pc = "done"
                 => /\ conv[c].status = (IF hist[c].firstFail = "none"
                                         THEN "S3StatusOK" ELSE hist[c].firstFail)
                    /\ conv[c].aclGrantCount = hist[c].materialized
                    /\ hist[c].firstFail = "none"
                         => conv[c].aclGrantCount = hist[c].closed)
    /\ [][\A c \in Callers :
            conv[c].pc = "done" => conv'[c] = conv[c] /\ hist'[c] = hist[c]]_vars

\* a call failed at its second Grant close, and the document went on
C9_Witness ==
    \E c \in Callers :
        /\ conv[c].pc = "done"
        /\ conv[c].status = "S3StatusBadAclGrantee"
        /\ hist[c].firstFail = "S3StatusBadAclGrantee"
        /\ hist[c].materialized = 1 /\ hist[c].closed = 2
        /\ conv[c].aclGrantCount = 1
        /\ delivered > hist[c].processed

(***************************************************************************)
(* C10.  What the caller's storage held before the call has no influence   *)
(* on the result: two conversions of one document, started on storage with *)
(* different owner strings, count and grant array, return the same status, *)
(* the same count, the same owner strings and, for each index below the    *)
(* count, a grant of the same kind, subject data and permission: count,    *)
(* owner strings and lengths are cleared before the first event.           *)
(***************************************************************************)
C10_IndependentOfPriorContents ==
    /\ \A c \in Callers :
          (conv[c].pc = "parse" /\ hist[c].processed = 0)
          => /\ conv[c].aclGrantCount = 0
             /\ conv[c].ownerId = "" /\ conv[c].ownerIdLen = 0
             /\ conv[c].ownerDisplayName = "" /\ conv[c].ownerDisplayNameLen = 0
    /\ \A c1 \in Callers : \A c2 \in Callers :
        (conv[c1].pc = "done" /\ conv[c2].pc = "done")
        => /\ conv[c1].status = conv[c2].status
           /\ conv[c1].aclGrantCount = conv[c2].aclGrantCount
           /\ conv[c1].ownerId = conv[c2].ownerId
           /\ conv[c1].ownerDisplayName = conv[c2].ownerDisplayName
           /\ \A i \in GrantIndexes :
                 i < conv[c1].aclGrantCount
                 => GrantView(conv[c1].aclGrants[i]) = GrantView(conv[c2].aclGrants[i])

\* both calls returned one grant and an owner id; beyond the count the
\* arrays still hold their different earlier contents
C10_Witness ==
    /\ \A c \in Callers :
          /\ conv[c].pc = "done" /\ conv[c].status = "S3StatusOK"
          /\ conv[c].aclGrantCount = 1 /\ conv[c].ownerId = "owner"
    /\ conv[1].aclGrants[1] # conv[2].aclGrants[1]

(***************************************************************************)
(* Vocabulary of the properties of bucket names.  Positions count from 1.  *)
(***************************************************************************)
NameChar(name, i) == SubSeq(name, i, i)

Alphanumeric(c) == c \in Letters \cup Digits

\* the longest name of a style
MaxLength(uriStyle) == IF uriStyle = "S3UriStyleVirtualHost" THEN 63 ELSE 255

\* '-' right after '.', or '.' right after '-', at positions i - 1 and i
Adjacency(name, i) ==
    /\ i >= 2
    /\ <<NameChar(name, i - 1), NameChar(name, i)>> \in {<<".", "-">>, <<"-", ".">>}

\* the grammar of a style accepts the character at position i
AcceptedAt(name, uriStyle, i) ==
    LET c == NameChar(name, i)
    IN  IF i = 1 THEN Alphanumeric(c)
        ELSE \/ Alphanumeric(c)
             \/ c = "_" /\ uriStyle = "S3UriStylePath"
             \/ /\ c \in {"-", "."}
                /\ ~(uriStyle = "S3UriStyleVirtualHost" /\ Adjacency(name, i))

AcceptedUpTo(name, uriStyle, n) ==
    \A i \in 1 .. n : AcceptedAt(name, uriStyle, i)

\* every character passes the scan, and the scan does not run out of length
PassesScan(name, uriStyle) ==
    /\ Len(name) <= MaxLength(uriStyle)
    /\ AcceptedUpTo(name, uriStyle, Len(name))

Validated(status) == val.pc = "done" /\ val.ret = status

(***************************************************************************)
(* C11.  The length is tested before the character: a name whose first     *)
(* MaxLength characters are accepted and which has one character more, of  *)
(* any kind, fails with TooLong; a name of exactly MaxLength alphanumeric   *)
(* characters validates OK; the counter of accepted characters never       *)
(* exceeds MaxLength.                                                      *)
(***************************************************************************)
C11_LengthBeforeCharacter ==
    /\ val.len <= MaxLength(val.uriStyle)
    /\ val.pc = "done"
         => LET name == val.bucketName
                m == MaxLength(val.uriStyle)
            IN  /\ (Len(name) > m /\ AcceptedUpTo(name, val.uriStyle, m))
                     => val.ret = "S3StatusInvalidBucketNameTooLong"
                /\ (Len(name) = m
                      /\ \A i \in 1 .. m : Alphanumeric(NameChar(name, i)))
                     => val.ret = "S3StatusOK"

\* a name of 63 letters and a control character, under VirtualHostStyle
C11_Witness ==
    /\ Validated("S3StatusInvalidBucketNameTooLong")
    /\ val.uriStyle = "S3UriStyleVirtualHost"
    /\ Len(val.bucketName) = 64
    /\ NameChar(val.bucketName, 64) = "\t"
    /\ val.len = 63

(***************************************************************************)
(* C12.  Under VirtualHostStyle a '-' right after a '.', or a '.' right    *)
(* after a '-', within the length bound and with everything before it      *)
(* accepted, fails with CharacterSequence.  Under PathStyle a name of      *)
(* valid characters with such an adjacency and at least 3 characters       *)
(* validates OK.                                                           *)
(***************************************************************************)
C12_CharacterSequence ==
    val.pc = "done"
    => LET name == val.bucketName
           m == MaxLength(val.uriStyle)
       IN  /\ val.uriStyle = "S3UriStyleVirtualHost"
                => \A i \in 2 .. Min(Len(name), m) :
                      (Adjacency(name, i) /\ AcceptedUpTo(name, val.uriStyle, i - 1))
                      => val.ret = "S3StatusInvalidBucketNameCharacterSequence"
           /\ (/\ val.uriStyle = "S3UriStylePath"
               /\ Len(name) >= 3 /\ Len(name) <= m
               /\ Alphanumeric(NameChar(name, 1))
               /\ \A i \in 2 .. Len(name) :
                     \/ Alphanumeric(NameChar(name, i))
                     \/ NameChar(name, i) \in {"_", "-", "."}
               /\ \E i \in 2 .. Len(name) : Adjacency(name, i))
                => val.ret = "S3StatusOK"

\* a '.' right after a '-' under VirtualHostStyle
C12_Witness ==
    /\ Validated("S3StatusInvalidBucketNameCharacterSequence")
    /\ val.uriStyle = "S3UriStyleVirtualHost"
    /\ val.bucketName = "a-.a"

(***************************************************************************)
(* C13.  A name that passes the scan with at least 3 characters fails with *)
(* DotQuadNotation exactly when it has a '.' and each of its characters is *)
(* a digit or a '.'.                                                       *)
(***************************************************************************)
C13_DotQuadNotation ==
    (/\ val.pc = "done"
     /\ Len(val.bucketName) >= 3
     /\ PassesScan(val.bucketName, val.uriStyle))
    => LET name == val.bucketName
           positions == 1 .. Len(name)
       IN  val.ret = "S3StatusInvalidBucketNameDotQuadNotation"
           <=> /\ \E i \in positions : NameChar(name, i) = "."
               /\ \A i \in positions : NameChar(name, i) \in Digits \cup {"."}

\* digits and two dots under PathStyle
C13_Witness ==
    /\ Validated("S3StatusInvalidBucketNameDotQuadNotation")
    /\ val.uriStyle = "S3UriStylePath"
    /\ val.bucketName = "5.5."

(***************************************************************************)
(* C14.  A name whose first character is neither a letter nor a digit      *)
(* fails with FirstCharacter, whatever the character and whatever follows  *)
(* it.  A character that is neither alphanumeric nor one of '_', '-', '.', *)
(* at a later position that the scan reaches within the length bound,      *)
(* fails with Character.                                                   *)
(***************************************************************************)
C14_FirstCharacter ==
    val.pc = "done"
    => LET name == val.bucketName
           m == MaxLength(val.uriStyle)
       IN  /\ (Len(name) >= 1 /\ ~Alphanumeric(NameChar(name, 1)))
                => val.ret = "S3StatusInvalidBucketNameFirstCharacter"
           /\ \A i \in 2 .. Min(Len(name), m) :
                 (/\ ~Alphanumeric(NameChar(name, i))
                  /\ NameChar(name, i) \notin {"_", "-", "."}
                  /\ AcceptedUpTo(name, val.uriStyle, i - 1))
                 => val.ret = "S3StatusInvalidBucketNameCharacter"

\* an underscore comes first under VirtualHostStyle, a control character
\* follows
C14_Witness ==
    /\ Validated("S3StatusInvalidBucketNameFirstCharacter")
    /\ val.uriStyle = "S3UriStyleVirtualHost"
    /\ val.bucketName = "_\ta"

(***************************************************************************)
(* C15.  A name of fewer than 3 characters that all pass the scan, the     *)
(* empty name included, fails with TooShort, also when it is made of       *)
(* digits and a dot; a name of 3 alphanumeric characters validates OK.     *)
(***************************************************************************)
C15_TooShort ==
    val.pc = "done"
    => LET name == val.bucketName
       IN  /\ (Len(name) < 3 /\ PassesScan(name, val.uriStyle))
                => val.ret = "S3StatusInvalidBucketNameTooShort"
           /\ (Len(name) = 3 /\ \A i \in 1 .. 3 : Alphanumeric(NameChar(name, i)))
                => val.ret = "S3StatusOK"

\* a digit and a dot
C15_Witness ==
    /\ Validated("S3StatusInvalidBucketNameTooShort")
    /\ val.bucketName = "5."

(***************************************************************************)
(* C16.  S3_status_is_retryable returns 1 for NameLookupError,             *)
(* FailedToConnect, ConnectionFailed, ErrorInternalError,                  *)
(* ErrorOperationAborted and ErrorRequestTimeout, and 0 for every other    *)
(* status.                                                                 *)
(***************************************************************************)
C16_RetryableStatuses ==
    retry.pc = "done"
    => /\ retry.ret \in {0, 1}
       /\ retry.ret = 1
            <=> \/ retry.status = "S3StatusNameLookupError"
                \/ retry.status = "S3StatusFailedToConnect"
                \/ retry.status = "S3StatusConnectionFailed"
                \/ retry.status = "S3StatusErrorInternalError"
                \/ retry.status = "S3StatusErrorOperationAborted"
                \/ retry.status = "S3StatusErrorRequestTimeout"

\* the library's own InternalError is not retried
C16_Witness ==
    /\ retry.pc = "done"
    /\ retry.status = "S3StatusInternalError"
    /\ retry.ret = 0

(***************************************************************************)
(* Vocabulary of the properties of owner storage and accumulators.         *)
(***************************************************************************)
AccumulatorsEmpty(d) ==
    /\ d.emailAddress = "" /\ d.userId = "" /\ d.userDisplayName = ""
    /\ d.groupUri = "" /\ d.permission = ""

AccumulatedTexts(d) ==
    [emailAddress |-> d.emailAddress, userId |-> d.userId,
     userDisplayName |-> d.userDisplayName, groupUri |-> d.groupUri,
     permission |-> d.permission]

GrantEndEvent == [elementPath |-> PathGrant, hasData |-> FALSE]

\* the latest event of the call was a Grant close that materialized a grant
JustMaterialized(c) ==
    /\ hist[c].lastEvent = GrantEndEvent
    /\ hist[c].failedAt # GrantEndEvent

\* an event the callback has no branch for
Unrecognised(e) ==
    \/ e.hasData /\ e.elementPath \notin OverflowFields
    \/ ~e.hasData /\ e.elementPath # PathGrant

(***************************************************************************)
(* C17.  As claimed: as long as every owner text event returned success,   *)
(* the owner storage holds the concatenation of all chunks delivered, no   *)
(* character dropped, and the running length is the length of the stored   *)
(* string; a chunk that does not fit entirely is an overflow failure.      *)
(***************************************************************************)
C17_OwnerTextKept ==
    \A c \in Callers :
        Parsing(c)
        => /\ conv[c].ownerId = hist[c].ownerIdText
           /\ conv[c].ownerIdLen = Len(conv[c].ownerId)
           /\ conv[c].ownerDisplayName = hist[c].ownerDisplayNameText
           /\ conv[c].ownerDisplayNameLen = Len(conv[c].ownerDisplayName)

\* an owner id of one character less than the buffer was answered with
\* S3StatusOK, and its last character is not in the storage
C17_Witness ==
    \E c \in Callers :
        /\ Parsing(c)
        /\ hist[c].processed = 1
        /\ Len(hist[c].ownerIdText) = S3_MAX_GRANTEE_USER_ID_SIZE - 1
        /\ conv[c].ownerIdLen = S3_MAX_GRANTEE_USER_ID_SIZE - 1
        /\ conv[c].ownerId
             = SubSeq(hist[c].ownerIdText, 1, S3_MAX_GRANTEE_USER_ID_SIZE - 2)

(***************************************************************************)
(* C18.  Whatever the lengths of the owner id and owner display name       *)
(* chunks, the terminator of the stored string, which is the last position *)
(* a write reaches, stays below the capacity of the buffer, and the size   *)
(* passed to snprintf at an event that is processed is not negative.       *)
(***************************************************************************)
C18_OwnerBufferBounds ==
    \A c \in Callers :
        /\ conv[c].pc # "call"
             => /\ Len(conv[c].ownerId) <= S3_MAX_GRANTEE_USER_ID_SIZE - 1
                /\ Len(conv[c].ownerDisplayName)
                     <= S3_MAX_GRANTEE_DISPLAY_NAME_SIZE - 1
        /\ Parsing(c)
             => /\ S3_MAX_GRANTEE_USER_ID_SIZE - conv[c].ownerIdLen - 1 >= 0
                /\ S3_MAX_GRANTEE_DISPLAY_NAME_SIZE
                     - conv[c].ownerDisplayNameLen - 1 >= 0

\* an owner id chunk longer than the buffer came after a short one
C18_Witness ==
    \E c \in Callers :
        /\ FailedAtText(c, PathOwnerId)
        /\ hist[c].ownerIdText = "i"
        /\ conv[c].ownerIdLen = 1 + Len(LongText)
        /\ Len(conv[c].ownerId) = S3_MAX_GRANTEE_USER_ID_SIZE - 2

(***************************************************************************)
(* C19.  The five accumulators are empty when the conversion starts and    *)
(* right after every materialized grant; while the conversion goes on they *)
(* hold the text delivered since the latest materialized grant and nothing *)
(* of an earlier grant.  A document of one grant with an email address and *)
(* the permission READ gives one ByEmail grant with permission Read.       *)
(***************************************************************************)
C19_AccumulatorsEmpty ==
    \A c \in Callers :
        /\ (Parsing(c) /\ hist[c].processed = 0) => AccumulatorsEmpty(conv[c])
        /\ (conv[c].pc # "call" /\ JustMaterialized(c)) => AccumulatorsEmpty(conv[c])
        /\ Parsing(c) => AccumulatedTexts(conv[c]) = hist[c].grantTexts
        /\ (/\ Failed(c, "S3StatusOK")
            /\ hist[c].closed = 1
            /\ hist[c].lastGrantEnd.emailAddress # ""
            /\ hist[c].lastGrantEnd.userId = ""
            /\ hist[c].lastGrantEnd.userDisplayName = ""
            /\ hist[c].lastGrantEnd.groupUri = ""
            /\ hist[c].lastGrantEnd.permission = "READ")
           => /\ conv[c].aclGrantCount = 1
              /\ GrantView(conv[c].aclGrants[0])
                   = <<"S3GranteeTypeAmazonCustomerByEmail",
                       <<"amazonCustomerByEmail", hist[c].lastGrantEnd.emailAddress>>,
                       "S3PermissionRead">>
              /\ JustMaterialized(c) => AccumulatorsEmpty(conv[c])

\* a grant by email was followed by a grant to all users
C19_Witness ==
    \E c \in Callers :
        /\ Parsing(c) /\ JustMaterialized(c)
        /\ hist[c].materialized = 2
        /\ conv[c].aclGrants[0].granteeType = "S3GranteeTypeAmazonCustomerByEmail"
        /\ conv[c].aclGrants[1].granteeType = "S3GranteeTypeAllUsers"
        /\ AccumulatorsEmpty(conv[c])

(***************************************************************************)
(* C20.  A text event of a path that is none of the seven fields, and the  *)
(* close of an element other than Grant, return success and change nothing *)
(* of the owner storage and its lengths, the accumulators, the count and   *)
(* the grant array.                                                        *)
(***************************************************************************)
C20_UnrecognisedEventsFrame ==
    [][\A c \in Callers :
          (/\ hist'[c].processed = hist[c].processed + 1
           /\ Unrecognised(hist'[c].lastEvent))
          => /\ conv'[c] = conv[c]
             /\ hist'[c].firstFail = hist[c].firstFail]_vars

\* the close of a Grantee element found an owner id and an email address
C20_Witness ==
    \E c \in Callers :
        /\ Parsing(c)
        /\ hist[c].lastEvent = [elementPath |-> PathGrantee, hasData |-> FALSE]
        /\ conv[c].ownerId = "owner"
        /\ conv[c].emailAddress = "a@b.c"

(***************************************************************************)
(* C21.  The virtual host style is the stricter grammar: a name that       *)
(* validates OK under S3UriStyleVirtualHost validates OK under             *)
(* S3UriStylePath.                                                         *)
(***************************************************************************)
C21_VirtualHostStricter ==
    (/\ \A u \in UriStyles : both[u].pc = "done"
     /\ both["S3UriStyleVirtualHost"].ret = "S3StatusOK")
    => both["S3UriStylePath"].ret = "S3StatusOK"

\* a name with '-' and '.' is OK under both styles
C21_Witness ==
    /\ \A u \in UriStyles : both[u].pc = "done" /\ both[u].ret = "S3StatusOK"
    /\ both["S3UriStyleVirtualHost"].bucketName = "a-5."

(***************************************************************************)
(* C22.  As claimed: when S3_initialize returns a status other than        *)
(* S3StatusOK, every mutex it created has been destroyed exactly once and  *)
(* the lock table it allocated has been freed.                             *)
(***************************************************************************)
C22_AllReleasedOnFailure ==
    (lib.pc = "done" /\ lib.ret # "S3StatusOK")
    => /\ \A k \in 0 .. (lib.count - 1) : lib.destroyed[k] = lib.created[k]
       /\ \A k \in 0 .. (lib.count - 1) : lib.created[k] <= 1
       /\ lib.freed = lib.allocated

\* the creation of the third mutex failed: the two mutexes were destroyed
\* once each, and the table is still allocated
C22_Witness ==
    /\ lib.pc = "done"
    /\ lib.ret = "S3StatusFailedToCreateMutex"
    /\ lib.created[0] = 1 /\ lib.destroyed[0] = 1
    /\ lib.created[1] = 1 /\ lib.destroyed[1] = 1
    /\ lib.created[2] = 0 /\ lib.destroyed[2] = 0
    /\ lib.allocated = 1 /\ lib.freed = 0

=============================================================================
